---------------------------- MODULE Spec2Model ----------------------------
(***************************************************************************)
(* A model of the flattened-device-tree reader of annwn (src/src/fdt.rs):  *)
(* header validation, the memory-reservation reader, the struct-block      *)
(* tokenizer and the lazy node / property / children views built on it.    *)
(*                                                                         *)
(* Memory is a sequence of bytes.  A Rust slice is a record [off, len]     *)
(* into that memory, an Option is a sequence of length 0 (None) or 1       *)
(* (Some).  A u32 / u64 is a sequence of 16-bit limbs, most significant    *)
(* first, so that 0xd00dfeed and 64-bit addresses are representable; a     *)
(* usize is an integer (see AsUsize).  A panic ends the program: every     *)
(* action is guarded by panic = NoPanic.                                   *)
(***************************************************************************)
EXTENDS Integers, Sequences, FiniteSets, TLC

VARIABLES
    mem,        \* the bytes at the pointer handed to Fdt::from_ptr
    gen,        \* the description the bytes of mem were encoded from (never read by the parser)
    debug,      \* TRUE: the build has debug_assertions on
    pc,         \* "start" before Fdt::from_ptr, "parsed" / "rejected" after
    fdt,        \* Option<Fdt>: the value Fdt::from_ptr returned
    panic,      \* NoPanic, or the reason the program aborted
    resv,       \* Option: the iterator memory_reservations() returned
    resvOut,    \* the reservations that iterator has yielded
    resvEnds,   \* how often that iterator has returned None
    resvFirst,  \* Option: resvOut at the first None
    tok,        \* Option<StructItemIter>: a cursor from struct_items()
    tokOut,     \* the tokens that cursor has yielded
    tokBytes,   \* the bytes of the emitted tokens, each rounded up to 4
    tokSkip,    \* the NOP and END tags the cursor has passed
    tokEnds,    \* how often the cursor has returned None
    tokAtEnd,   \* Option: Len(tokOut) before the call that first passed an END tag
    rootCalled, \* TRUE once root_node() was called
    node,       \* Option<FdtNode>: the node under inspection
    ch,         \* Option<Children>: an iterator node.children() returned
    chOut,      \* the child nodes it has yielded
    chEnds,     \* how often it has returned None
    chBegins,   \* BeginNode tokens it has consumed
    chEndNodes, \* EndNode tokens it has consumed
    pr,         \* Option: an iterator node.properties() returned
    prOut,      \* the properties it has yielded
    prEnds,     \* how often it has returned None
    doneCh,     \* the complete outputs of finished children() scans of node
    donePr,     \* the complete outputs of finished properties() scans of node
    runs,       \* [ch, pr]: how many scans of each kind have finished on node
    scans,      \* the iterators the caller has created on node
    quota,      \* the iterators the caller creates on one node at most
    stack,      \* the frames of show_node that have not returned, outermost first
    shown,      \* what show_node has printed: per node visited, the node and its properties
    parent      \* Option: the node and Children iterator a kept child was yielded by

vars == <<mem, gen, debug, pc, fdt, panic, resv, resvOut, resvEnds, resvFirst,
          tok, tokOut, tokBytes, tokSkip, tokEnds, tokAtEnd, rootCalled,
          node, ch, chOut, chEnds, chBegins, chEndNodes, pr, prOut, prEnds,
          doneCh, donePr, runs, scans, quota, stack, shown, parent>>

hdrVars == <<mem, gen, debug, quota>>
resvVars == <<resv, resvOut, resvEnds, resvFirst>>
tokVars == <<tok, tokOut, tokBytes, tokSkip, tokEnds, tokAtEnd>>
chVars == <<ch, chOut, chEnds, chBegins, chEndNodes>>
prVars == <<pr, prOut, prEnds>>
walkVars == <<stack, shown, parent>>
navVars == <<rootCalled, node, ch, chOut, chEnds, chBegins, chEndNodes,
             pr, prOut, prEnds, doneCh, donePr, runs, scans>>

-----------------------------------------------------------------------------
(* Bounds of the model *)

\* records after the root's in a generated struct block (one scan at a time)
MaxRecs == 5
\* records in a generated struct block (tokenizer, richer record kinds)
MaxTokRecs == 3
\* bytes taken off the declared size of a generated struct block
MaxCut == 2
\* records in a generated memory-reservation block
MaxResv == 3
\* times one iterator is seen to return None
MaxPolls == 2
\* iterators created on one node where scans are restarted and interleaved
MaxScans == 3
\* records after the root's in a generated struct block, in that case
MaxNavRecs == 4
\* records after the root's in a generated struct block with unknown tags
MaxAbortRecs == 4
\* records after the root's in a generated struct block that show_node walks
MaxWalkRecs == 6
\* records after the root's in a generated struct block, a child being kept
MaxKeepRecs == 5

-----------------------------------------------------------------------------
(* Values *)

None == <<>>
Some(x) == <<x>>
IsSome(o) == Len(o) = 1
Get(o) == o[1]

NoPanic == "none"

Min(a, b) == IF a <= b THEN a ELSE b

RECURSIVE Concat(_)
Concat(ss) == IF ss = <<>> THEN <<>> ELSE Head(ss) \o Concat(Tail(ss))

RECURSIVE SumSeq(_)
SumSeq(s) == IF s = <<>> THEN 0 ELSE Head(s) + SumSeq(Tail(s))

IsPrefix(s, t) == Len(s) <= Len(t) /\ SubSeq(t, 1, Len(s)) = s

\* the limbs of a small natural number as a u32
U32(n) == <<n \div 65536, n % 65536>>
U64(n) == <<0, 0, n \div 65536, n % 65536>>

\* to_be_bytes: each 16-bit limb becomes two bytes, most significant first
ToBeBytes(limbs) == Concat([i \in 1..Len(limbs) |-> <<limbs[i] \div 256, limbs[i] % 256>>])

\* from_be / from_be_bytes: bytes b[1..2n], most significant first, to n limbs
FromBeBytesLe(b) == [i \in 1..(Len(b) \div 2) |->
                        b[Len(b) - 2*i + 2] * 256 + b[Len(b) - 2*i + 1]]
FromBeBytes(b) == [i \in 1..(Len(b) \div 2) |-> b[2*i - 1] * 256 + b[2*i]]

IsZero(limbs) == \A i \in 1..Len(limbs) : limbs[i] = 0

\* `x as usize` of a u32.  Every length of the model is below 2^16, so a
\* value of 2^30 or more is kept as 2^30: it compares with every length as
\* the real value does, and 12 + align_up of it stays a machine integer here.
UsizeClamp == 16384 * 65536
AsUsize(u) == IF u[1] >= 16384 THEN UsizeClamp ELSE u[1] * 65536 + u[2]

U32Lt(a, b) == a[1] < b[1] \/ (a[1] = b[1] /\ a[2] < b[2])

\* util::align_up, for an align that is a power of two
align_up_next(value, align) == value + align - (value % align)
align_up(value, align) == (value + align - 1) - ((value + align - 1) % align)

-----------------------------------------------------------------------------
(* Slices of mem *)

Slice(off, len) == [off |-> off, len |-> len]
\* s[i], 0-based
Byte(s, i) == mem[s.off + i + 1]
Bytes(s) == [i \in 1..s.len |-> mem[s.off + i]]
\* &s[a..] and &s[..n]; each panics unless its Ok holds
SliceFromOk(s, a) == a <= s.len
SliceFrom(s, a) == [off |-> s.off + a, len |-> s.len - a]
SliceToOk(s, n) == n <= s.len
SliceTo(s, n) == [off |-> s.off, len |-> n]
\* s[a..b] as a value
Read(s, a, b) == [i \in 1..(b - a) |-> mem[s.off + a + i]]

-----------------------------------------------------------------------------
(* The header, src/src/fdt.rs FdtHeader *)

FDT_MAGIC == <<53261, 65261>>   \* 0xd00d, 0xfeed
HeaderLen == 40

HeaderFields == <<"magic", "totalsize", "off_dt_struct", "off_dt_strings",
                  "off_mem_rsvmap", "version", "last_comp_version",
                  "boot_cpuid_phys", "size_dt_strings", "size_dt_struct">>

\* u32::from_be(ptr.add(k).read())
ReadField(k) == FromBeBytes([i \in 1..4 |-> mem[4 * k + i]])

MagicOkAny(magic) == TRUE
MagicOk(magic) == magic = FDT_MAGIC

VersionOkLax(version, last_comp_version) ==
    ~(U32Lt(version, U32(17)) /\ U32Lt(U32(17), last_comp_version))
VersionOk(version, last_comp_version) ==
    ~(U32Lt(version, U32(17)) \/ U32Lt(U32(17), last_comp_version))

FdtHeader_from_ptr ==
    IF ~MagicOk(ReadField(0)) THEN None
    ELSE IF ~VersionOk(ReadField(5), ReadField(6)) THEN None
    ELSE Some([magic |-> ReadField(0),
               totalsize |-> ReadField(1),
               off_dt_struct |-> ReadField(2),
               off_dt_strings |-> ReadField(3),
               off_mem_rsvmap |-> ReadField(4),
               version |-> ReadField(5),
               last_comp_version |-> ReadField(6),
               boot_cpuid_phys |-> ReadField(7),
               size_dt_strings |-> ReadField(8),
               size_dt_struct |-> ReadField(9)])

Fdt_from_ptr ==
    IF FdtHeader_from_ptr = None THEN None
    ELSE Some([header |-> Get(FdtHeader_from_ptr),
               data |-> Slice(0, AsUsize(Get(FdtHeader_from_ptr).totalsize))])

theFdt == Get(fdt)

-----------------------------------------------------------------------------
(* The generated input: what the bytes of mem encode.  A struct record is   *)
(* [k, name, off, val]: k is "B" (FDT_BEGIN_NODE with name), "E"            *)
(* (FDT_END_NODE), "P" (FDT_PROP with value val and name offset off, which  *)
(* the strings block resolves to name), "N" (FDT_NOP), "X" (FDT_END), "U"   *)
(* (a tag the reader does not know) or "T" (a FDT_BEGIN_NODE whose name     *)
(* runs to the end of the block without a NUL).                             *)

Rec(k, name, off, val) == [k |-> k, name |-> name, off |-> off, val |-> val]

\* the strings block: "x\0yz\0"
StringsBlock == <<120, 0, 121, 122, 0>>
NameAt0 == <<120>>
NameAt2 == <<121, 122>>

Pad(n) == [i \in 1..(align_up(n, 4) - n) |-> 0]

TagOf(k) == CASE k = "B" -> 1 [] k = "E" -> 2 [] k = "P" -> 3 [] k = "N" -> 4
              [] k = "X" -> 9 [] k = "T" -> 1 [] OTHER -> 5

Enc(r) ==
    CASE r.k = "B" -> ToBeBytes(U32(1)) \o r.name \o <<0>> \o Pad(Len(r.name) + 1)
      [] r.k = "T" -> ToBeBytes(U32(1)) \o r.name
      [] r.k = "P" -> ToBeBytes(U32(3)) \o ToBeBytes(U32(Len(r.val)))
                        \o ToBeBytes(U32(r.off)) \o r.val \o Pad(Len(r.val))
      [] OTHER -> ToBeBytes(U32(TagOf(r.k)))

EncRecs(recs) == Concat([i \in 1..Len(recs) |-> Enc(recs[i])])

EncResv(rs) == Concat([i \in 1..Len(rs) |->
                          ToBeBytes(rs[i].address) \o ToBeBytes(rs[i].size)])

\* the byte offset, from the start of the struct block, just after record i
RecEnd(recs, i) == SumSeq([j \in 1..i |-> Len(Enc(recs[j]))])

\* a well-laid-out blob: header, reservation block, struct block, strings
\* block; `cut` bytes are taken off the declared size of the struct block
Layout(rs, recs, cut) ==
    LET offStruct == HeaderLen + Len(EncResv(rs))
        lenStruct == Len(EncRecs(recs))
        offStrings == offStruct + lenStruct
    IN  [magic |-> FDT_MAGIC,
         totalsize |-> U32(offStrings + Len(StringsBlock)),
         off_dt_struct |-> U32(offStruct),
         off_dt_strings |-> U32(offStrings),
         off_mem_rsvmap |-> U32(HeaderLen),
         version |-> U32(17),
         last_comp_version |-> U32(16),
         boot_cpuid_phys |-> U32(0),
         size_dt_strings |-> U32(Len(StringsBlock)),
         size_dt_struct |-> U32(lenStruct - cut)]

EncHeader(h) == Concat([i \in 1..Len(HeaderFields) |-> ToBeBytes(h[HeaderFields[i]])])

\* memory after the blob: the caller of from_ptr vouches for totalsize bytes
Trailing == <<255, 255, 255, 255>>

EncBlob(h, rs, recs) ==
    EncHeader(h) \o EncResv(rs) \o EncRecs(recs) \o StringsBlock \o Trailing

Gen(h, rs, recs, cut) == [hdr |-> h, resv |-> rs, recs |-> recs, cut |-> cut]

-----------------------------------------------------------------------------
(* Text: CStr::from_bytes_until_nul and CStr::to_str *)

\* the index of the first NUL of slice s, or -1: from_bytes_until_nul fails
NulPos(s) ==
    IF \E i \in 0..(s.len - 1) : Byte(s, i) = 0
    THEN CHOOSE i \in 0..(s.len - 1) :
            Byte(s, i) = 0 /\ \A j \in 0..(i - 1) : Byte(s, j) # 0
    ELSE -1

IsCont(b) == 128 <= b /\ b <= 191

\* core::str::from_utf8 succeeds on b
RECURSIVE Utf8Ok(_)
Utf8Ok(b) ==
    IF b = <<>> THEN TRUE
    ELSE LET c == b[1]
             n == Len(b)
         IN  IF c < 128 THEN Utf8Ok(Tail(b))
             ELSE IF 194 <= c /\ c <= 223
                  THEN n >= 2 /\ IsCont(b[2]) /\ Utf8Ok(SubSeq(b, 3, n))
             ELSE IF 224 <= c /\ c <= 239
                  THEN n >= 3 /\ IsCont(b[2]) /\ IsCont(b[3])
                       /\ (c = 224 => b[2] >= 160) /\ (c = 237 => b[2] <= 159)
                       /\ Utf8Ok(SubSeq(b, 4, n))
             ELSE IF 240 <= c /\ c <= 244
                  THEN n >= 4 /\ IsCont(b[2]) /\ IsCont(b[3]) /\ IsCont(b[4])
                       /\ (c = 240 => b[2] >= 144) /\ (c = 244 => b[2] <= 143)
                       /\ Utf8Ok(SubSeq(b, 5, n))
             ELSE FALSE

-----------------------------------------------------------------------------
(* The struct tokenizer, src/src/fdt.rs StructItemIter *)

FDT_BEGIN_NODE == <<0, 1>>
FDT_END_NODE == <<0, 2>>
FDT_PROP == <<0, 3>>
FDT_NOP == <<0, 4>>
FDT_END == <<0, 9>>

Item(kind, name, value) == [kind |-> kind, name |-> name, value |-> value]

\* what one call of next() did: the cursor after it, the item returned, the
\* panic raised, the NOP / END tags passed, whether an END tag was passed
Ret(it, item, p, skipped, sawEnd) ==
    [iter |-> it, item |-> item, panic |-> p, skipped |-> skipped, sawEnd |-> sawEnd]

Advance(it, n) == [it EXCEPT !.dt_struct = SliceFrom(it.dt_struct, n)]

\* BeginNodeArm with the advance clamped to the bytes that remain
BeginNodeArmClamped(it, skipped, sawEnd) ==
    LET s == it.dt_struct
        rest == SliceFrom(s, 4)
        nul == NulPos(rest)
        len == IF nul < 0 THEN rest.len ELSE nul
        sz_name == align_up(len + 1, 4)
    IN  Ret(Advance(it, Min(4 + sz_name, s.len)),
            Some(Item("BeginNode", Read(rest, 0, len), <<>>)), NoPanic, skipped, sawEnd)
BeginNodeArm(it, skipped, sawEnd) ==
    LET s == it.dt_struct
        rest == SliceFrom(s, 4)
        nul == NulPos(rest)
        name == Read(rest, 0, nul)
        sz_name == align_up(nul + 1, 4)
    IN  IF nul < 0 THEN Ret(it, None, "from_bytes_until_nul", skipped, sawEnd)
        ELSE IF ~Utf8Ok(name) THEN Ret(it, None, "to_str", skipped, sawEnd)
        ELSE IF ~SliceFromOk(s, 4 + sz_name)
             THEN Ret(it, None, "slice index", skipped, sawEnd)
        ELSE Ret(Advance(it, 4 + sz_name), Some(Item("BeginNode", name, <<>>)),
                 NoPanic, skipped, sawEnd)

\* EndNodeArm without the advance
EndNodeArmStuck(it, skipped, sawEnd) ==
    Ret(it, Some(Item("EndNode", <<>>, <<>>)), NoPanic, skipped, sawEnd)

EndNodeArm(it, skipped, sawEnd) ==
    Ret(Advance(it, 4), Some(Item("EndNode", <<>>, <<>>)), NoPanic, skipped, sawEnd)

PropArmUnaligned(it, skipped, sawEnd) ==
    LET s == it.dt_struct
        len == AsUsize(FromBeBytes(Read(s, 4, 8)))
        nameoff == AsUsize(FromBeBytes(Read(s, 8, 12)))
        strs == SliceFrom(it.dt_strings, nameoff)
        nul == NulPos(strs)
    IN  IF s.len < 12 \/ ~SliceFromOk(it.dt_strings, nameoff) \/ nul < 0
           \/ ~SliceToOk(SliceFrom(s, 12), len)
        THEN Ret(it, None, "slice index", skipped, sawEnd)
        ELSE Ret(Advance(it, 12 + len),
                 Some(Item("Prop", Read(strs, 0, nul), Read(s, 12, 12 + len))),
                 NoPanic, skipped, sawEnd)

\* PropArm with the value slice taken over the aligned length
PropArmPadded(it, skipped, sawEnd) ==
    LET s == it.dt_struct
        len == AsUsize(FromBeBytes(Read(s, 4, 8)))
        nameoff == AsUsize(FromBeBytes(Read(s, 8, 12)))
        strs == SliceFrom(it.dt_strings, nameoff)
        nul == NulPos(strs)
        aligned == align_up(len, 4)
    IN  IF s.len < 12 \/ ~SliceFromOk(it.dt_strings, nameoff) \/ nul < 0
           \/ ~SliceFromOk(s, 12 + aligned)
        THEN Ret(it, None, "slice index", skipped, sawEnd)
        ELSE Ret(Advance(it, 12 + aligned),
                 Some(Item("Prop", Read(strs, 0, nul), Read(s, 12, 12 + aligned))),
                 NoPanic, skipped, sawEnd)
PropArm(it, skipped, sawEnd) ==
    LET s == it.dt_struct
        len == AsUsize(FromBeBytes(Read(s, 4, 8)))
        nameoff == AsUsize(FromBeBytes(Read(s, 8, 12)))
        strs == SliceFrom(it.dt_strings, nameoff)
        nul == NulPos(strs)
        name == Read(strs, 0, nul)
        aligned == align_up(len, 4)
    IN  IF s.len < 8 \/ s.len < 12 THEN Ret(it, None, "slice index", skipped, sawEnd)
        ELSE IF ~SliceFromOk(it.dt_strings, nameoff)
             THEN Ret(it, None, "slice index", skipped, sawEnd)
        ELSE IF nul < 0 THEN Ret(it, None, "from_bytes_until_nul", skipped, sawEnd)
        ELSE IF ~Utf8Ok(name) THEN Ret(it, None, "to_str", skipped, sawEnd)
        ELSE IF ~SliceToOk(SliceFrom(s, 12), len)
             THEN Ret(it, None, "slice index", skipped, sawEnd)
        ELSE IF ~SliceFromOk(s, 12 + aligned)
             THEN Ret(it, None, "slice index", skipped, sawEnd)
        ELSE Ret(Advance(it, 12 + aligned),
                 Some(Item("Prop", name, Read(s, 12, 12 + len))),
                 NoPanic, skipped, sawEnd)

\* the while loop of next() with an unknown tag passed over like a NOP
RECURSIVE NextLoopSkipUnknown(_, _, _)
NextLoopSkipUnknown(it, skipped, sawEnd) ==
    LET s == it.dt_struct
        tag == FromBeBytes(Read(s, 0, 4))
    IN  IF s.len = 0 THEN Ret(it, None, NoPanic, skipped, sawEnd)
        ELSE IF s.len < 4 THEN Ret(it, None, "slice index", skipped, sawEnd)
        ELSE IF tag = FDT_BEGIN_NODE THEN BeginNodeArm(it, skipped, sawEnd)
        ELSE IF tag = FDT_END_NODE THEN EndNodeArm(it, skipped, sawEnd)
        ELSE IF tag = FDT_PROP THEN PropArm(it, skipped, sawEnd)
        ELSE IF tag = FDT_END
             THEN IF debug /\ Advance(it, 4).dt_struct.len # 0
                  THEN Ret(Advance(it, 4), None, "debug_assert", skipped + 1, TRUE)
                  ELSE NextLoopSkipUnknown(Advance(it, 4), skipped + 1, TRUE)
        ELSE NextLoopSkipUnknown(Advance(it, 4), skipped + 1, sawEnd)

\* StructItemIter::next, from the top of its while loop
RECURSIVE NextLoop(_, _, _)
NextLoop(it, skipped, sawEnd) ==
    LET s == it.dt_struct
        tag == FromBeBytes(Read(s, 0, 4))
    IN  IF s.len = 0 THEN Ret(it, None, NoPanic, skipped, sawEnd)
        ELSE IF s.len < 4 THEN Ret(it, None, "slice index", skipped, sawEnd)
        ELSE IF tag = FDT_BEGIN_NODE THEN BeginNodeArm(it, skipped, sawEnd)
        ELSE IF tag = FDT_END_NODE THEN EndNodeArm(it, skipped, sawEnd)
        ELSE IF tag = FDT_PROP THEN PropArm(it, skipped, sawEnd)
        ELSE IF tag = FDT_NOP THEN NextLoop(Advance(it, 4), skipped + 1, sawEnd)
        ELSE IF tag = FDT_END
             THEN IF debug /\ Advance(it, 4).dt_struct.len # 0
                  THEN Ret(Advance(it, 4), None, "debug_assert", skipped + 1, TRUE)
                  ELSE NextLoop(Advance(it, 4), skipped + 1, TRUE)
        ELSE Ret(it, None, "unrecognized FDT node", skipped, sawEnd)

StructItemIter_next(it) == NextLoop(it, 0, FALSE)

\* the bytes of the struct block an emitted token stands for
TokenBytes(item) ==
    CASE item.kind = "BeginNode" -> 4 + align_up(Len(item.name) + 1, 4)
      [] item.kind = "EndNode" -> 4
      [] item.kind = "Prop" -> 12 + align_up(Len(item.value), 4)

-----------------------------------------------------------------------------
(* Fdt: memory_reservations, struct_items, root_node *)

\* &self.data[off_mem_rsvmap..] does not panic
MemResvOk(f) == SliceFromOk(f.data, AsUsize(f.header.off_mem_rsvmap))
\* the whole chunks of the slice but the last
Fdt_memory_reservations_short(f) ==
    LET memresv == SliceFrom(f.data, AsUsize(f.header.off_mem_rsvmap))
        whole == memresv.len - (memresv.len % 16)
    IN  SliceTo(memresv, IF whole >= 16 THEN whole - 16 ELSE whole)
\* memresv.chunks_exact(16): the whole chunks of the slice
Fdt_memory_reservations(f) ==
    LET memresv == SliceFrom(f.data, AsUsize(f.header.off_mem_rsvmap))
    IN  SliceTo(memresv, memresv.len - (memresv.len % 16))

MemoryReservation(address, size) == [address |-> address, size |-> size]

\* the closure given to map_while
ResvClosureAnyZero(chunk) ==
    LET address == FromBeBytes(Read(chunk, 0, 8))
        size == FromBeBytes(Read(chunk, 8, 16))
    IN  IF IsZero(address) \/ IsZero(size) THEN None
        ELSE Some(MemoryReservation(address, size))
ResvClosure(chunk) ==
    LET address == FromBeBytes(Read(chunk, 0, 8))
        size == FromBeBytes(Read(chunk, 8, 16))
    IN  IF IsZero(address) /\ IsZero(size) THEN None
        ELSE Some(MemoryReservation(address, size))

\* MapWhile<ChunksExact>::next: [iter, item]
Resv_next(v) ==
    IF v.len < 16 THEN [iter |-> v, item |-> None]
    ELSE [iter |-> SliceFrom(v, 16), item |-> ResvClosure(SliceTo(v, 16))]

StructItemsOk(f) ==
    /\ SliceFromOk(f.data, AsUsize(f.header.off_dt_struct))
    /\ SliceToOk(SliceFrom(f.data, AsUsize(f.header.off_dt_struct)),
                 AsUsize(f.header.size_dt_struct))
    /\ SliceFromOk(f.data, AsUsize(f.header.off_dt_strings))
    /\ SliceToOk(SliceFrom(f.data, AsUsize(f.header.off_dt_strings)),
                 AsUsize(f.header.size_dt_strings))

Fdt_struct_items(f) ==
    [dt_struct |-> SliceTo(SliceFrom(f.data, AsUsize(f.header.off_dt_struct)),
                           AsUsize(f.header.size_dt_struct)),
     dt_strings |-> SliceTo(SliceFrom(f.data, AsUsize(f.header.off_dt_strings)),
                            AsUsize(f.header.size_dt_strings))]

FdtNode(name, it) == [name |-> name, iter |-> it]

\* root_node: [node, panic]
Fdt_root_node_any(f) ==
    LET r == StructItemIter_next(Fdt_struct_items(f))
    IN  IF ~StructItemsOk(f) THEN [node |-> None, panic |-> "slice index"]
        ELSE IF r.panic # NoPanic THEN [node |-> None, panic |-> r.panic]
        ELSE IF r.item # None
             THEN [node |-> Some(FdtNode(Get(r.item).name, r.iter)), panic |-> NoPanic]
        ELSE [node |-> None, panic |-> "expected FDT_BEGIN_NODE"]
Fdt_root_node(f) ==
    LET r == StructItemIter_next(Fdt_struct_items(f))
    IN  IF ~StructItemsOk(f) THEN [node |-> None, panic |-> "slice index"]
        ELSE IF r.panic # NoPanic THEN [node |-> None, panic |-> r.panic]
        ELSE IF r.item # None /\ Get(r.item).kind = "BeginNode"
             THEN [node |-> Some(FdtNode(Get(r.item).name, r.iter)), panic |-> NoPanic]
        ELSE [node |-> None, panic |-> "expected FDT_BEGIN_NODE"]

-----------------------------------------------------------------------------
(* FdtNode: properties and children *)

Property(name, value) == [name |-> name, value |-> value]

\* self.iter.clone().map_while(..).fuse()
FdtNode_properties(n) == [iter |-> n.iter, fused |-> FALSE]

\* Fuse<MapWhile<StructItemIter>>::next: [pr, item, panic]
Properties_next_unfused(p) ==
    LET r == StructItemIter_next(p.iter)
    IN  IF r.panic # NoPanic THEN [pr |-> p, item |-> None, panic |-> r.panic]
        ELSE IF r.item # None /\ Get(r.item).kind = "Prop"
             THEN [pr |-> [p EXCEPT !.iter = r.iter],
                   item |-> Some(Property(Get(r.item).name, Get(r.item).value)),
                   panic |-> NoPanic]
        ELSE [pr |-> [p EXCEPT !.iter = r.iter], item |-> None, panic |-> NoPanic]
Properties_next(p) ==
    LET r == StructItemIter_next(p.iter)
    IN  IF p.fused THEN [pr |-> p, item |-> None, panic |-> NoPanic]
        ELSE IF r.panic # NoPanic THEN [pr |-> p, item |-> None, panic |-> r.panic]
        ELSE IF r.item # None /\ Get(r.item).kind = "Prop"
             THEN [pr |-> [p EXCEPT !.iter = r.iter],
                   item |-> Some(Property(Get(r.item).name, Get(r.item).value)),
                   panic |-> NoPanic]
        ELSE [pr |-> [iter |-> r.iter, fused |-> TRUE], item |-> None, panic |-> NoPanic]

\* children() with the depth counter started one level too deep
FdtNode_children_deep(n) == [iter |-> n.iter, depth |-> 2]
FdtNode_children(n) == [iter |-> n.iter, depth |-> 1]

ChRet(c, item, p, begins, ends) ==
    [ch |-> c, item |-> item, panic |-> p, begins |-> begins, ends |-> ends]

\* Children::next, from the top of its while loop; begins and ends count the
\* BeginNode and EndNode tokens the call has consumed
RECURSIVE ChildrenLoopDeep(_, _, _)
ChildrenLoopDeep(c, begins, ends) ==
    LET r == StructItemIter_next(c.iter)
        kind == Get(r.item).kind
    IN  IF ~(c.depth > 0) THEN ChRet(c, None, NoPanic, begins, ends)
        ELSE IF r.panic # NoPanic THEN ChRet(c, None, r.panic, begins, ends)
        ELSE IF r.item = None
             THEN ChRet([c EXCEPT !.iter = r.iter], None, NoPanic, begins, ends)
        ELSE IF kind = "BeginNode"
             THEN ChRet([iter |-> r.iter, depth |-> c.depth + 1],
                        Some(FdtNode(Get(r.item).name, r.iter)),
                        NoPanic, begins + 1, ends)
        ELSE IF kind = "EndNode"
             THEN ChildrenLoopDeep([iter |-> r.iter, depth |-> c.depth - 1], begins, ends + 1)
        ELSE ChildrenLoopDeep([c EXCEPT !.iter = r.iter], begins, ends)

\* the while loop of Children::next without its guard on depth
RECURSIVE ChildrenLoopUnguarded(_, _, _)
ChildrenLoopUnguarded(c, begins, ends) ==
    LET r == StructItemIter_next(c.iter)
        kind == Get(r.item).kind
    IN  IF r.panic # NoPanic THEN ChRet(c, None, r.panic, begins, ends)
        ELSE IF r.item = None
             THEN ChRet([c EXCEPT !.iter = r.iter], None, NoPanic, begins, ends)
        ELSE IF kind = "BeginNode"
             THEN IF c.depth + 1 = 2
                  THEN ChRet([iter |-> r.iter, depth |-> c.depth + 1],
                             Some(FdtNode(Get(r.item).name, r.iter)),
                             NoPanic, begins + 1, ends)
                  ELSE ChildrenLoopUnguarded([iter |-> r.iter, depth |-> c.depth + 1],
                                             begins + 1, ends)
        ELSE IF kind = "EndNode"
             THEN ChildrenLoopUnguarded([iter |-> r.iter, depth |-> c.depth - 1],
                                        begins, ends + 1)
        ELSE ChildrenLoopUnguarded([c EXCEPT !.iter = r.iter], begins, ends)

RECURSIVE ChildrenLoop(_, _, _)
ChildrenLoop(c, begins, ends) ==
    LET r == StructItemIter_next(c.iter)
        kind == Get(r.item).kind
    IN  IF ~(c.depth > 0) THEN ChRet(c, None, NoPanic, begins, ends)
        ELSE IF r.panic # NoPanic THEN ChRet(c, None, r.panic, begins, ends)
        ELSE IF r.item = None
             THEN ChRet([c EXCEPT !.iter = r.iter], None, NoPanic, begins, ends)
        ELSE IF kind = "BeginNode"
             THEN IF c.depth + 1 = 2
                  THEN ChRet([iter |-> r.iter, depth |-> c.depth + 1],
                             Some(FdtNode(Get(r.item).name, r.iter)),
                             NoPanic, begins + 1, ends)
                  ELSE ChildrenLoop([iter |-> r.iter, depth |-> c.depth + 1],
                                    begins + 1, ends)
        ELSE IF kind = "EndNode"
             THEN ChildrenLoop([iter |-> r.iter, depth |-> c.depth - 1], begins, ends + 1)
        ELSE ChildrenLoop([c EXCEPT !.iter = r.iter], begins, ends)

Children_next(c) == ChildrenLoop(c, 0, 0)

-----------------------------------------------------------------------------
(* Actions: one per call of the public interface *)

FromPtr ==
    /\ pc = "start" /\ panic = NoPanic
    /\ fdt' = Fdt_from_ptr
    /\ pc' = IF Fdt_from_ptr = None THEN "rejected" ELSE "parsed"
    /\ UNCHANGED <<hdrVars, walkVars, panic, resvVars, tokVars, navVars>>

MemoryReservations ==
    /\ pc = "parsed" /\ panic = NoPanic /\ resv = None
    /\ IF MemResvOk(theFdt)
       THEN resv' = Some(Fdt_memory_reservations(theFdt)) /\ UNCHANGED panic
       ELSE panic' = "slice index" /\ UNCHANGED resv
    /\ UNCHANGED <<hdrVars, walkVars, pc, fdt, resvOut, resvEnds, resvFirst, tokVars, navVars>>

ResvNext ==
    /\ panic = NoPanic /\ resv # None /\ resvEnds < MaxPolls
    /\ LET r == Resv_next(Get(resv))
       IN  /\ resv' = Some(r.iter)
           /\ IF r.item # None
              THEN /\ resvOut' = Append(resvOut, Get(r.item))
                   /\ UNCHANGED <<resvEnds, resvFirst>>
              ELSE /\ resvEnds' = resvEnds + 1
                   /\ resvFirst' = IF resvEnds = 0 THEN Some(resvOut) ELSE resvFirst
                   /\ UNCHANGED resvOut
    /\ UNCHANGED <<hdrVars, walkVars, pc, fdt, panic, tokVars, navVars>>

StructItems ==
    /\ pc = "parsed" /\ panic = NoPanic /\ tok = None
    /\ IF StructItemsOk(theFdt)
       THEN tok' = Some(Fdt_struct_items(theFdt)) /\ UNCHANGED panic
       ELSE panic' = "slice index" /\ UNCHANGED tok
    /\ UNCHANGED <<hdrVars, walkVars, pc, fdt, resvVars, tokOut, tokBytes, tokSkip, tokEnds,
                   tokAtEnd, navVars>>

TokNext ==
    /\ panic = NoPanic /\ tok # None /\ tokEnds < MaxPolls /\ ~rootCalled
    /\ LET r == StructItemIter_next(Get(tok))
       IN  IF r.panic # NoPanic
           THEN /\ panic' = r.panic
                /\ tokAtEnd' = IF tokAtEnd = None /\ r.sawEnd
                               THEN Some(Len(tokOut)) ELSE tokAtEnd
                /\ UNCHANGED <<tok, tokOut, tokBytes, tokSkip, tokEnds>>
           ELSE /\ tok' = Some(r.iter)
                /\ tokSkip' = tokSkip + r.skipped
                /\ tokAtEnd' = IF tokAtEnd = None /\ r.sawEnd
                               THEN Some(Len(tokOut)) ELSE tokAtEnd
                /\ IF r.item # None
                   THEN /\ tokOut' = Append(tokOut, Get(r.item))
                        /\ tokBytes' = tokBytes + TokenBytes(Get(r.item))
                        /\ UNCHANGED tokEnds
                   ELSE /\ tokEnds' = tokEnds + 1
                        /\ UNCHANGED <<tokOut, tokBytes>>
                /\ UNCHANGED panic
    /\ UNCHANGED <<hdrVars, walkVars, pc, fdt, resvVars, navVars>>

\* root_node(), called before a cursor of the caller's own has gone past the
\* first token (the two do not share state)
RootNode ==
    /\ pc = "parsed" /\ panic = NoPanic /\ ~rootCalled
    /\ tok = None \/ Len(tokOut) + tokEnds <= 1
    /\ rootCalled' = TRUE
    /\ node' = Fdt_root_node(theFdt).node
    /\ panic' = Fdt_root_node(theFdt).panic
    /\ UNCHANGED <<hdrVars, walkVars, pc, fdt, resvVars, tokVars, chVars, prVars, doneCh, donePr,
                   runs, scans>>

\* node.children(): a new iterator, once the previous one (if any) has ended
Children ==
    /\ panic = NoPanic /\ node # None
    /\ ch = None \/ chEnds > 0
    /\ scans < quota /\ scans' = scans + 1
    /\ ch' = Some(FdtNode_children(Get(node)))
    /\ chOut' = <<>> /\ chEnds' = 0 /\ chBegins' = 0 /\ chEndNodes' = 0
    /\ UNCHANGED <<hdrVars, walkVars, pc, fdt, panic, resvVars, tokVars, rootCalled, node,
                   prVars, doneCh, donePr, runs>>

\* Children::next on a cursor shared with the node instead of a clone of it
ChildrenNextShared ==
    /\ panic = NoPanic /\ ch # None /\ chEnds < MaxPolls
    /\ LET r == Children_next(Get(ch))
       IN  IF r.panic # NoPanic
           THEN panic' = r.panic /\ UNCHANGED <<chVars, doneCh, runs, node>>
           ELSE /\ ch' = Some(r.ch)
                /\ node' = Some([Get(node) EXCEPT !.iter = r.ch.iter])
                /\ chBegins' = chBegins + r.begins
                /\ chEndNodes' = chEndNodes + r.ends
                /\ IF r.item # None
                   THEN /\ chOut' = Append(chOut, Get(r.item))
                        /\ UNCHANGED <<chEnds, doneCh, runs>>
                   ELSE /\ chEnds' = chEnds + 1
                        /\ doneCh' = IF chEnds = 0
                                     THEN doneCh \cup {[out |-> chOut, other |-> pr]}
                                     ELSE doneCh
                        /\ runs' = IF chEnds = 0
                                   THEN [runs EXCEPT !.ch = @ + 1] ELSE runs
                        /\ UNCHANGED chOut
                /\ UNCHANGED panic
    /\ UNCHANGED <<hdrVars, walkVars, pc, fdt, resvVars, tokVars, rootCalled, prVars, donePr, scans>>

\* a kept child's children() scan run on the cursor of the iterator that
\* yielded the child instead of a copy of it
ChildrenNextAliased ==
    /\ panic = NoPanic /\ ch # None /\ chEnds < MaxPolls
    /\ LET r == Children_next(Get(ch))
       IN  IF r.panic # NoPanic
           THEN panic' = r.panic /\ UNCHANGED <<chVars, doneCh, runs, parent>>
           ELSE /\ ch' = Some(r.ch)
                /\ parent' = IF parent = None THEN None
                             ELSE Some([Get(parent) EXCEPT !.ch.iter = r.ch.iter])
                /\ chBegins' = chBegins + r.begins
                /\ chEndNodes' = chEndNodes + r.ends
                /\ IF r.item # None
                   THEN /\ chOut' = Append(chOut, Get(r.item))
                        /\ UNCHANGED <<chEnds, doneCh, runs>>
                   ELSE /\ chEnds' = chEnds + 1
                        /\ doneCh' = IF chEnds = 0
                                     THEN doneCh \cup {[out |-> chOut, other |-> pr]}
                                     ELSE doneCh
                        /\ runs' = IF chEnds = 0
                                   THEN [runs EXCEPT !.ch = @ + 1] ELSE runs
                        /\ UNCHANGED chOut
                /\ UNCHANGED panic
    /\ UNCHANGED <<hdrVars, stack, shown, pc, fdt, resvVars, tokVars, rootCalled, node,
                   prVars, donePr, scans>>
ChildrenNext ==
    /\ panic = NoPanic /\ ch # None /\ chEnds < MaxPolls
    /\ LET r == Children_next(Get(ch))
       IN  IF r.panic # NoPanic
           THEN panic' = r.panic /\ UNCHANGED <<chVars, doneCh, runs>>
           ELSE /\ ch' = Some(r.ch)
                /\ chBegins' = chBegins + r.begins
                /\ chEndNodes' = chEndNodes + r.ends
                /\ IF r.item # None
                   THEN /\ chOut' = Append(chOut, Get(r.item))
                        /\ UNCHANGED <<chEnds, doneCh, runs>>
                   ELSE /\ chEnds' = chEnds + 1
                        /\ doneCh' = IF chEnds = 0
                                     THEN doneCh \cup {[out |-> chOut, other |-> pr]}
                                     ELSE doneCh
                        /\ runs' = IF chEnds = 0
                                   THEN [runs EXCEPT !.ch = @ + 1] ELSE runs
                        /\ UNCHANGED chOut
                /\ UNCHANGED panic
    /\ UNCHANGED <<hdrVars, walkVars, pc, fdt, resvVars, tokVars, rootCalled, node, prVars, donePr,
                   scans>>

\* node.properties(): a new iterator, once the previous one (if any) has ended
Properties ==
    /\ panic = NoPanic /\ node # None
    /\ pr = None \/ prEnds > 0
    /\ scans < quota /\ scans' = scans + 1
    /\ pr' = Some(FdtNode_properties(Get(node)))
    /\ prOut' = <<>> /\ prEnds' = 0
    /\ UNCHANGED <<hdrVars, walkVars, pc, fdt, panic, resvVars, tokVars, rootCalled, node,
                   chVars, doneCh, donePr, runs>>

\* the properties scan run on the node's own cursor instead of a clone of it
PropertiesNextShared ==
    /\ panic = NoPanic /\ pr # None /\ prEnds < MaxPolls
    /\ LET r == Properties_next(Get(pr))
       IN  IF r.panic # NoPanic
           THEN panic' = r.panic /\ UNCHANGED <<prVars, donePr, runs, node>>
           ELSE /\ pr' = Some(r.pr)
                /\ node' = Some([Get(node) EXCEPT !.iter = r.pr.iter])
                /\ IF r.item # None
                   THEN /\ prOut' = Append(prOut, Get(r.item))
                        /\ UNCHANGED <<prEnds, donePr, runs>>
                   ELSE /\ prEnds' = prEnds + 1
                        /\ donePr' = IF prEnds = 0
                                     THEN donePr \cup {[out |-> prOut, other |-> ch]}
                                     ELSE donePr
                        /\ runs' = IF prEnds = 0
                                   THEN [runs EXCEPT !.pr = @ + 1] ELSE runs
                        /\ UNCHANGED prOut
                /\ UNCHANGED panic
    /\ UNCHANGED <<hdrVars, walkVars, pc, fdt, resvVars, tokVars, rootCalled, chVars, doneCh, scans>>

PropertiesNext ==
    /\ panic = NoPanic /\ pr # None /\ prEnds < MaxPolls
    /\ LET r == Properties_next(Get(pr))
       IN  IF r.panic # NoPanic
           THEN panic' = r.panic /\ UNCHANGED <<prVars, donePr, runs>>
           ELSE /\ pr' = Some(r.pr)
                /\ IF r.item # None
                   THEN /\ prOut' = Append(prOut, Get(r.item))
                        /\ UNCHANGED <<prEnds, donePr, runs>>
                   ELSE /\ prEnds' = prEnds + 1
                        /\ donePr' = IF prEnds = 0
                                     THEN donePr \cup {[out |-> prOut, other |-> ch]}
                                     ELSE donePr
                        /\ runs' = IF prEnds = 0
                                   THEN [runs EXCEPT !.pr = @ + 1] ELSE runs
                        /\ UNCHANGED prOut
                /\ UNCHANGED panic
    /\ UNCHANGED <<hdrVars, walkVars, pc, fdt, resvVars, tokVars, rootCalled, node, chVars, doneCh,
                   scans>>

\* the caller moves on to the child node the children iterator yielded last
\* (show_node's recursive call)
Enter ==
    /\ panic = NoPanic /\ chOut # <<>>
    /\ node' = Some(chOut[Len(chOut)])
    /\ ch' = None /\ chOut' = <<>> /\ chEnds' = 0 /\ chBegins' = 0 /\ chEndNodes' = 0
    /\ pr' = None /\ prOut' = <<>> /\ prEnds' = 0
    /\ doneCh' = {} /\ donePr' = {} /\ runs' = [ch |-> 0, pr |-> 0] /\ scans' = 0
    /\ UNCHANGED <<hdrVars, walkVars, pc, fdt, panic, resvVars, tokVars, rootCalled>>

-----------------------------------------------------------------------------
(* Initial states *)

InitRest ==
    /\ pc = "start" /\ fdt = None /\ panic = NoPanic
    /\ resv = None /\ resvOut = <<>> /\ resvEnds = 0 /\ resvFirst = None
    /\ tok = None /\ tokOut = <<>> /\ tokBytes = 0 /\ tokSkip = 0 /\ tokEnds = 0
    /\ tokAtEnd = None
    /\ rootCalled = FALSE /\ node = None
    /\ ch = None /\ chOut = <<>> /\ chEnds = 0 /\ chBegins = 0 /\ chEndNodes = 0
    /\ pr = None /\ prOut = <<>> /\ prEnds = 0
    /\ doneCh = {} /\ donePr = {} /\ runs = [ch |-> 0, pr |-> 0] /\ scans = 0
    /\ stack = <<>> /\ shown = <<>> /\ parent = None

SeqsUpTo(S, n) == UNION {[1..k -> S] : k \in 0..n}

Sentinel == MemoryReservation(U64(0), U64(0))
BeginRec(name) == Rec("B", name, 0, <<>>)
EndRec == Rec("E", <<>>, 0, <<>>)
NopRec == Rec("N", <<>>, 0, <<>>)
EndTagRec == Rec("X", <<>>, 0, <<>>)
UnknownRec == Rec("U", <<>>, 0, <<>>)
PropRec(off, val) == Rec("P", IF off = 0 THEN NameAt0 ELSE NameAt2, off, val)

\* Scenario A of the specification, with one reservation
ScenarioResv == <<MemoryReservation(U64(4096), U64(256)), Sentinel>>
ScenarioRecs == <<BeginRec(<<>>), PropRec(0, <<116, 101, 115, 116, 0>>), EndRec, EndTagRec>>

(* header fields of every kind over a fixed body *)
Magics == {FDT_MAGIC, <<60926, 3536>>, <<53261, 65262>>, <<53260, 65261>>, <<0, 0>>}
Versions == {U32(16), U32(17), U32(18), <<4352, 0>>}
FarOff == U32(200)
Huge == <<65535, 65535>>

InitHdr ==
    /\ InitRest /\ quota = 0
    /\ debug \in BOOLEAN
    /\ \E magic \in Magics, version \in Versions, lcv \in Versions,
          offStruct \in {Layout(ScenarioResv, ScenarioRecs, 0).off_dt_struct, FarOff},
          szStruct \in {Layout(ScenarioResv, ScenarioRecs, 0).size_dt_struct, Huge},
          offStrings \in {Layout(ScenarioResv, ScenarioRecs, 0).off_dt_strings, FarOff},
          offRsv \in {Layout(ScenarioResv, ScenarioRecs, 0).off_mem_rsvmap, FarOff},
          total \in {Layout(ScenarioResv, ScenarioRecs, 0).totalsize, U32(HeaderLen),
                     U32(Len(EncBlob(Layout(ScenarioResv, ScenarioRecs, 0),
                                     ScenarioResv, ScenarioRecs)))} :
          LET h == [Layout(ScenarioResv, ScenarioRecs, 0) EXCEPT
                       !.magic = magic, !.version = version,
                       !.last_comp_version = lcv, !.off_dt_struct = offStruct,
                       !.size_dt_struct = szStruct, !.off_dt_strings = offStrings,
                       !.off_mem_rsvmap = offRsv, !.totalsize = total]
          IN  /\ gen = Gen(h, ScenarioResv, ScenarioRecs, 0)
              /\ mem = EncBlob(h, ScenarioResv, ScenarioRecs)

NextHdr == FromPtr \/ MemoryReservations \/ StructItems

SpecHdr == InitHdr /\ [][NextHdr]_vars

(* reservation blocks of every kind before a fixed struct block *)
ResvKinds == {Sentinel,
              MemoryReservation(U64(0), U64(16)),
              MemoryReservation(U64(4096), U64(0)),
              MemoryReservation(<<32768, 0, 0, 1>>, <<0, 1, 0, 0>>)}

InitResv ==
    /\ InitRest /\ quota = 0
    /\ debug \in BOOLEAN
    /\ \E rs \in SeqsUpTo(ResvKinds, MaxResv), offRsv \in {U32(HeaderLen), FarOff} :
          LET h == [Layout(rs, ScenarioRecs, 0) EXCEPT !.off_mem_rsvmap = offRsv]
          IN  /\ gen = Gen(h, rs, ScenarioRecs, 0)
              /\ mem = EncBlob(h, rs, ScenarioRecs)

NextResv == FromPtr \/ MemoryReservations \/ ResvNext

SpecResv == InitResv /\ [][NextResv]_vars

(* struct blocks of every kind, for the tokenizer *)
TokKinds == {BeginRec(<<>>), BeginRec(<<97, 98, 99>>), BeginRec(<<97, 98, 99, 100>>),
             EndRec, NopRec, EndTagRec, UnknownRec,
             PropRec(0, <<>>), PropRec(2, <<1, 2, 3, 4, 5, 6>>),
             PropRec(0, <<8, 9, 10, 11>>),
             Rec("T", <<97, 98, 99, 100>>, 0, <<>>)}

InitTok ==
    /\ InitRest /\ quota = 0
    /\ debug \in BOOLEAN
    /\ \E recs \in SeqsUpTo(TokKinds, MaxTokRecs) :
       \E cut \in 0..Min(MaxCut, Len(EncRecs(recs))) :
          /\ gen = Gen(Layout(<<Sentinel>>, recs, cut), <<Sentinel>>, recs, cut)
          /\ mem = EncBlob(Layout(<<Sentinel>>, recs, cut), <<Sentinel>>, recs)

NextTok == FromPtr \/ StructItems \/ TokNext \/ RootNode

SpecTok == InitTok /\ [][NextTok]_vars

(* struct blocks of nodes and properties under a root, for the node views *)
NavKinds == {BeginRec(<<97>>), EndRec, PropRec(2, <<7>>)}
ScanKinds == NavKinds \cup {NopRec, EndTagRec}

NavBlob(recs) ==
    /\ gen = Gen(Layout(<<Sentinel>>, recs, 0), <<Sentinel>>, recs, 0)
    /\ mem = EncBlob(Layout(<<Sentinel>>, recs, 0), <<Sentinel>>, recs)

\* the caller restarts and interleaves the scans of a node; these blocks hold
\* no END tag, the one thing the two builds treat differently
Init ==
    /\ InitRest /\ quota = MaxScans
    /\ debug = FALSE
    /\ \E tail \in SeqsUpTo(NavKinds, MaxNavRecs) : NavBlob(<<BeginRec(<<>>)>> \o tail)

Next ==
    \/ FromPtr
    \/ RootNode
    \/ Children
    \/ ChildrenNext
    \/ Properties
    \/ PropertiesNext
    \/ Enter

Spec == Init /\ [][Next]_vars

\* the caller runs one scan on each node it visits
InitScan ==
    /\ InitRest /\ quota = 1
    /\ debug \in BOOLEAN
    /\ \E tail \in SeqsUpTo(ScanKinds, MaxRecs) : NavBlob(<<BeginRec(<<>>)>> \o tail)

SpecScan == InitScan /\ [][Next]_vars

(* struct blocks that hold a tag the reader does not know or an END tag,    *)
(* read with a cursor of the caller's own or through the node views         *)
AbortKinds == NavKinds \cup {UnknownRec, EndTagRec}

InitAbort ==
    /\ InitRest /\ quota = 1
    /\ debug \in BOOLEAN
    /\ \E tail \in SeqsUpTo(AbortKinds, MaxAbortRecs) : NavBlob(<<BeginRec(<<>>)>> \o tail)

NextAbort ==
    \/ FromPtr
    \/ StructItems
    \/ TokNext
    \/ RootNode
    \/ Children
    \/ ChildrenNext
    \/ Properties
    \/ PropertiesNext
    \/ Enter

SpecAbort == InitAbort /\ [][NextAbort]_vars

-----------------------------------------------------------------------------
(* show_node of src/src/main.rs: print the node's name, its properties,     *)
(* then show_node of each of its children.  A frame is a call that has not  *)
(* returned: its node, the loop it is in and that loop's iterator.          *)

show_node(n) == [node |-> n, phase |-> "properties", it |-> FdtNode_properties(n)]

Shown(n) == [node |-> n, props |-> <<>>]

Top == stack[Len(stack)]
SetTop(f) == [stack EXCEPT ![Len(stack)] = f]

\* kmain: show_node(root, 0)
ShowNodeCall ==
    /\ panic = NoPanic /\ rootCalled /\ node # None
    /\ stack = <<>> /\ shown = <<>>
    /\ stack' = <<show_node(Get(node))>>
    /\ shown' = <<Shown(Get(node))>>
    /\ UNCHANGED <<hdrVars, pc, fdt, panic, resvVars, tokVars, navVars, parent>>

\* one turn of `for prop in node.properties()`
ShowNodeProp ==
    /\ panic = NoPanic /\ stack # <<>> /\ Top.phase = "properties"
    /\ LET r == Properties_next(Top.it)
       IN  IF r.panic # NoPanic
           THEN panic' = r.panic /\ UNCHANGED <<stack, shown>>
           ELSE /\ UNCHANGED panic
                /\ IF r.item # None
                   THEN /\ stack' = SetTop([Top EXCEPT !.it = r.pr])
                        /\ shown' = [shown EXCEPT ![Len(shown)].props =
                                        Append(@, Get(r.item))]
                   ELSE /\ stack' = SetTop([Top EXCEPT !.phase = "children",
                                                       !.it = FdtNode_children(Top.node)])
                        /\ UNCHANGED shown
    /\ UNCHANGED <<hdrVars, pc, fdt, resvVars, tokVars, navVars, parent>>

\* one turn of `for node in node.children()`: show_node of the child, or the
\* return of this call
ShowNodeChild ==
    /\ panic = NoPanic /\ stack # <<>> /\ Top.phase = "children"
    /\ LET r == Children_next(Top.it)
       IN  IF r.panic # NoPanic
           THEN panic' = r.panic /\ UNCHANGED <<stack, shown>>
           ELSE /\ UNCHANGED panic
                /\ IF r.item # None
                   THEN /\ stack' = Append(SetTop([Top EXCEPT !.it = r.ch]),
                                           show_node(Get(r.item)))
                        /\ shown' = Append(shown, Shown(Get(r.item)))
                   ELSE /\ stack' = SubSeq(stack, 1, Len(stack) - 1)
                        /\ UNCHANGED shown
    /\ UNCHANGED <<hdrVars, pc, fdt, resvVars, tokVars, navVars, parent>>

(* struct blocks for show_node *)
WalkKinds == {BeginRec(<<97>>), EndRec, PropRec(2, <<7>>), EndTagRec}

InitWalk ==
    /\ InitRest /\ quota = 0
    /\ debug \in BOOLEAN
    /\ \E tail \in SeqsUpTo(WalkKinds, MaxWalkRecs) : NavBlob(<<BeginRec(<<>>)>> \o tail)

NextWalk ==
    \/ FromPtr
    \/ RootNode
    \/ ShowNodeCall
    \/ ShowNodeProp
    \/ ShowNodeChild

SpecWalk == InitWalk /\ [][NextWalk]_vars

\* the caller moves on to the child the children iterator yielded last and
\* keeps that iterator to go on with it later (show_node's for loop)
EnterKeeping ==
    /\ panic = NoPanic /\ chOut # <<>> /\ parent = None
    /\ parent' = Some([node |-> Get(node), ch |-> Get(ch), out |-> chOut, ends |-> chEnds])
    /\ node' = Some(chOut[Len(chOut)])
    /\ ch' = None /\ chOut' = <<>> /\ chEnds' = 0 /\ chBegins' = 0 /\ chEndNodes' = 0
    /\ pr' = None /\ prOut' = <<>> /\ prEnds' = 0
    /\ doneCh' = {} /\ donePr' = {} /\ runs' = [ch |-> 0, pr |-> 0] /\ scans' = 0
    /\ UNCHANGED <<hdrVars, stack, shown, pc, fdt, panic, resvVars, tokVars, rootCalled>>

\* Children::next on the kept iterator
ParentNext ==
    /\ panic = NoPanic /\ parent # None /\ Get(parent).ends < MaxPolls
    /\ LET r == Children_next(Get(parent).ch)
       IN  IF r.panic # NoPanic
           THEN panic' = r.panic /\ UNCHANGED parent
           ELSE /\ UNCHANGED panic
                /\ parent' = Some([Get(parent) EXCEPT
                       !.ch = r.ch,
                       !.out = IF r.item # None THEN Append(@, Get(r.item)) ELSE @,
                       !.ends = IF r.item # None THEN @ ELSE @ + 1])
    /\ UNCHANGED <<hdrVars, stack, shown, pc, fdt, resvVars, tokVars, navVars>>

(* struct blocks for a parent's iterator and a kept child's scans *)
InitKeep ==
    /\ InitRest /\ quota = 1
    /\ debug = FALSE
    /\ \E tail \in SeqsUpTo(NavKinds, MaxKeepRecs) : NavBlob(<<BeginRec(<<>>)>> \o tail)

NextKeep ==
    \/ FromPtr
    \/ RootNode
    \/ Children
    \/ ChildrenNext
    \/ Properties
    \/ PropertiesNext
    \/ EnterKeeping
    \/ ParentNext

SpecKeep == InitKeep /\ [][NextKeep]_vars

-----------------------------------------------------------------------------
(* What the generated input says the reader should find.  These definitions *)
(* read gen only, never mem.                                                *)

\* a generated u32 below 2^31 as a number
NatOf(u) == u[1] * 65536 + u[2]

\* the cursor just after struct record i
GenIter(i) ==
    [dt_struct |-> Slice(NatOf(gen.hdr.off_dt_struct) + RecEnd(gen.recs, i),
                         NatOf(gen.hdr.size_dt_struct) - RecEnd(gen.recs, i)),
     dt_strings |-> Slice(NatOf(gen.hdr.off_dt_strings), NatOf(gen.hdr.size_dt_strings))]

GenNode(i) == FdtNode(gen.recs[i].name, GenIter(i))

\* the record of the BeginNode a node's cursor stands after, or 0
NodeIdx(n) ==
    IF \E i \in 1..Len(gen.recs) : gen.recs[i].k = "B" /\ GenIter(i) = n.iter
    THEN CHOOSE i \in 1..Len(gen.recs) : gen.recs[i].k = "B" /\ GenIter(i) = n.iter
    ELSE 0

CountKind(k, a, b) == Cardinality({j \in a..b : gen.recs[j].k = k})

\* the nesting depth, relative to the node of record i, that record j is met at
DepthAt(i, j) == 1 + CountKind("B", i + 1, j - 1) - CountKind("E", i + 1, j - 1)

\* the record of the EndNode that closes the node of record i, or 0
CloseIdx(i) ==
    LET closes == {m \in (i + 1)..Len(gen.recs) :
                      gen.recs[m].k = "E" /\ DepthAt(i, m) = 1}
    IN  IF closes = {} THEN 0 ELSE CHOOSE m \in closes : \A x \in closes : m <= x

\* the members of a set of record numbers, in file order
RECURSIVE Ascending(_)
Ascending(S) ==
    IF S = {} THEN <<>>
    ELSE LET m == CHOOSE x \in S : \A y \in S : x <= y
         IN  <<m>> \o Ascending(S \ {m})

\* the direct children of the node of record i, which CloseIdx(i) closes
GenChildren(i) ==
    LET idx == Ascending({j \in (i + 1)..(CloseIdx(i) - 1) :
                             gen.recs[j].k = "B" /\ DepthAt(i, j) = 1})
    IN  [x \in 1..Len(idx) |-> GenNode(idx[x])]

\* the properties of the node of record i: the Property records that follow
\* it before the first BeginNode or EndNode record
GenProperties(i) ==
    LET stops == {m \in (i + 1)..Len(gen.recs) : gen.recs[m].k \in {"B", "E"}}
        stop == IF stops = {} THEN Len(gen.recs) + 1
                ELSE CHOOSE m \in stops : \A x \in stops : m <= x
        idx == Ascending({j \in (i + 1)..(stop - 1) : gen.recs[j].k = "P"})
    IN  [x \in 1..Len(idx) |-> Property(gen.recs[idx[x]].name, gen.recs[idx[x]].val)]

-----------------------------------------------------------------------------
(* C1..C10 *)

(* C1: a buffer whose first four bytes, read big-endian, are not 0xd00dfeed *)
(* is rejected by Fdt::from_ptr whatever the other header fields hold: no   *)
(* Fdt value exists, and so no reservation iterator, cursor or node.        *)
C1_BadMagicRejected ==
    (pc # "start" /\ gen.hdr.magic # FDT_MAGIC)
        => /\ pc = "rejected" /\ fdt = None
           /\ resv = None /\ tok = None /\ node = None

\* rejected for the magic alone: the byte-swapped magic over a valid header
C1_Witness ==
    /\ pc = "rejected"
    /\ gen.hdr = [Layout(gen.resv, gen.recs, 0) EXCEPT !.magic = <<60926, 3536>>]

(* C2: with the right magic, Fdt::from_ptr returns a blob exactly when      *)
(* version >= 17 and last_comp_version <= 17; the view it returns is        *)
(* totalsize bytes long; the offset and size fields play no part.           *)
C2_AcceptedIffVersions ==
    (pc # "start" /\ gen.hdr.magic = FDT_MAGIC)
        => /\ (fdt # None) <=> (NatOf(gen.hdr.version) >= 17
                                /\ NatOf(gen.hdr.last_comp_version) <= 17)
           /\ pc = (IF fdt # None THEN "parsed" ELSE "rejected")
           /\ fdt # None => /\ theFdt.data = Slice(0, NatOf(gen.hdr.totalsize))
                            /\ theFdt.header = gen.hdr

\* accepted although the struct block is declared beyond totalsize, which
\* only shows when the block is sliced
C2_Witness ==
    /\ fdt # None
    /\ NatOf(gen.hdr.off_dt_struct) > NatOf(gen.hdr.totalsize)
    /\ gen.hdr.size_dt_struct = Huge
    /\ NatOf(gen.hdr.version) = 18
    /\ panic = "slice index"

(* C3: memory_reservations(), read until it first returns None, yields the  *)
(* records before the first all-zero record, in file order, without that    *)
(* record; a record with only its address or only its size zero is yielded. *)
FirstSentinel(rs) ==
    IF \E i \in 1..Len(rs) : rs[i] = Sentinel
    THEN CHOOSE i \in 1..Len(rs) : rs[i] = Sentinel /\ \A j \in 1..(i - 1) : rs[j] # Sentinel
    ELSE 0

C3_ReservationsBeforeSentinel ==
    /\ resvFirst # None =>
          IF FirstSentinel(gen.resv) # 0
          THEN Get(resvFirst) = SubSeq(gen.resv, 1, FirstSentinel(gen.resv) - 1)
          ELSE IsPrefix(gen.resv, Get(resvFirst))
    /\ resvFirst = None =>
          IsPrefix(resvOut, IF FirstSentinel(gen.resv) # 0
                            THEN SubSeq(gen.resv, 1, FirstSentinel(gen.resv) - 1)
                            ELSE resvOut)

\* two half-zero records were yielded and the sentinel after them ended it
C3_Witness ==
    /\ resvFirst # None
    /\ gen.resv = <<MemoryReservation(U64(0), U64(16)),
                    MemoryReservation(U64(4096), U64(0)), Sentinel>>
    /\ Get(resvFirst) = SubSeq(gen.resv, 1, 2)

(* C6 as stated: once a cursor from the start of the struct block has       *)
(* returned None, the bytes of the tokens it emitted, each rounded up to 4, *)
(* add up to size_dt_struct.                                                *)
C6_TokenBytesEqualSize ==
    (tok # None /\ tokEnds > 0) => tokBytes = NatOf(gen.hdr.size_dt_struct)

(* C6 as amended: the bytes of the emitted tokens plus 4 for every NOP and  *)
(* END tag passed add up to size_dt_struct.                                 *)
C6_TokenAndTagBytesEqualSize ==
    (tok # None /\ tokEnds > 0) =>
        /\ tokBytes + 4 * tokSkip = NatOf(gen.hdr.size_dt_struct)
        /\ Get(tok).dt_struct.len = 0

\* a node with a name, a property with padding and the END tag, read to the
\* end
C6_Witness ==
    /\ tok # None /\ tokEnds > 0
    /\ gen.recs = <<BeginRec(<<97, 98, 99, 100>>), PropRec(2, <<1, 2, 3, 4, 5, 6>>), EndTagRec>>
    /\ Len(tokOut) = 2 /\ tokSkip = 1

(* C9: once the tokenizer has read an END tag, neither that call of next()  *)
(* nor any later one yields a token, whatever follows the tag.              *)
C9_NoTokenAfterEndTag ==
    tokAtEnd # None => Len(tokOut) = Get(tokAtEnd)

(* C10: root_node() returns a node, with the name of the first token and    *)
(* the cursor just after it, exactly when the first token of the struct     *)
(* block is a BeginNode; when it is an EndNode or a Property, or the block  *)
(* yields no token, root_node() panics.                                     *)

\* the generated block is made of whole, known records, so that its first
\* token can be read off the records
GenClean ==
    gen.cut = 0 /\ \A i \in 1..Len(gen.recs) : gen.recs[i].k \notin {"T", "U"}

\* the first record that is a token, or 0
GenFirstTok ==
    LET toks == {i \in 1..Len(gen.recs) : gen.recs[i].k \notin {"N", "X"}}
    IN  IF toks = {} THEN 0 ELSE CHOOSE i \in toks : \A x \in toks : i <= x

\* a debug build stops at an END tag that is not the end of the block
GenEndTagAsserts ==
    /\ debug
    /\ \E j \in 1..(Len(gen.recs) - 1) :
          gen.recs[j].k = "X" /\ (GenFirstTok = 0 \/ j < GenFirstTok)

C10_RootNodeIffBeginNode ==
    /\ (rootCalled /\ GenClean) =>
          IF GenFirstTok # 0 /\ gen.recs[GenFirstTok].k = "B" /\ ~GenEndTagAsserts
          THEN node = Some(GenNode(GenFirstTok))
          ELSE node = None /\ panic # NoPanic
    /\ (rootCalled /\ GenClean /\ ~GenEndTagAsserts
          /\ (GenFirstTok = 0 \/ gen.recs[GenFirstTok].k \in {"E", "P"}))
          => panic = "expected FDT_BEGIN_NODE"
    /\ (rootCalled /\ node = None) => panic # NoPanic
    /\ (rootCalled /\ (tokOut # <<>> \/ tokEnds > 0)) =>
          /\ (node # None) <=> (tokOut # <<>> /\ tokOut[1].kind = "BeginNode")
          /\ node # None => Get(node).name = tokOut[1].name

\* the root is found behind a NOP
C10_Witness ==
    /\ rootCalled /\ node # None
    /\ gen.recs = <<NopRec, BeginRec(<<97, 98, 99>>), EndRec>>
    /\ Get(node).name = <<97, 98, 99>>
    /\ Get(node).iter.dt_struct.len = 4

(* C4: on one node, every children() scan yields the same child nodes in    *)
(* the same order, and every properties() scan the same (name, value)       *)
(* pairs: each call starts from the node's saved cursor, which none moves.  *)
C4_ScansRestartIdentically ==
    /\ \A a, b \in doneCh : a.other = b.other => a.out = b.out
    /\ \A a, b \in donePr : a.other = b.other => a.out = b.out
    /\ (ch # None /\ chOut = <<>> /\ chEnds = 0) => Get(ch) = FdtNode_children(Get(node))
    /\ (pr # None /\ prOut = <<>> /\ prEnds = 0) => Get(pr) = FdtNode_properties(Get(node))
    /\ node # None => /\ NodeIdx(Get(node)) # 0
                      /\ Get(node) = GenNode(NodeIdx(Get(node)))

\* two finished children() scans of a node with a child, nothing else done
C4_Witness ==
    /\ runs.ch = 2 /\ pr = None
    /\ \E a \in doneCh : Len(a.out) = 1 /\ a.other = None
    /\ gen.recs = <<BeginRec(<<>>), PropRec(2, <<7>>), BeginRec(<<97>>), EndRec, EndRec>>

(* C5: the children a node's children() scan yields are the same whether    *)
(* or not, and however far, a properties() scan of the node has run before  *)
(* or during it; likewise for properties() against children().              *)
C5_ViewsDoNotInterfere ==
    /\ \A a, b \in doneCh : a.out = b.out
    /\ \A a, b \in donePr : a.out = b.out

\* the same child was found before and after a complete properties() scan
C5_Witness ==
    /\ runs.ch = 2 /\ runs.pr = 1
    /\ \E a, b \in doneCh : a.other = None /\ b.other # None
                            /\ Get(b.other).fused /\ Len(a.out) = 1
    /\ \E p \in donePr : Len(p.out) = 1 /\ p.other # None
    /\ gen.recs = <<BeginRec(<<>>), PropRec(2, <<7>>), BeginRec(<<97>>), EndRec, EndRec>>

(* C7: for a node N that an EndNode closes, N.children() yields exactly the *)
(* BeginNode tokens one level below N, in file order: no property, no       *)
(* deeper descendant, nothing after N's EndNode; it ends with depth 0.      *)
C7_ChildrenAreDirectChildren ==
    (ch # None /\ CloseIdx(NodeIdx(Get(node))) # 0) =>
        /\ IsPrefix(chOut, GenChildren(NodeIdx(Get(node))))
        /\ chEnds > 0 => /\ chOut = GenChildren(NodeIdx(Get(node)))
                         /\ Get(ch).depth = 0
                         /\ Get(ch).iter = GenIter(CloseIdx(NodeIdx(Get(node))))

\* the root has a child with a child of its own: only the child is yielded
C7_Witness ==
    /\ ch # None /\ chEnds > 0 /\ Len(chOut) = 1
    /\ NodeIdx(Get(node)) = 1
    /\ gen.recs = <<BeginRec(<<>>), BeginRec(<<97>>), BeginRec(<<97>>),
                    EndRec, EndRec, EndRec>>

(* C8: properties() yields exactly the Property tokens that follow the      *)
(* node's BeginNode before the first BeginNode or EndNode token, NOPs not   *)
(* counting, in file order, and nothing more however often it is polled.    *)
C8_PropertiesAreLeadingRun ==
    pr # None =>
        /\ IsPrefix(prOut, GenProperties(NodeIdx(Get(node))))
        /\ prEnds > 0 => prOut = GenProperties(NodeIdx(Get(node)))

\* a property behind a NOP is yielded, the one after the child never is,
\* though the iterator is polled again after it ended
C8_Witness ==
    /\ pr # None /\ prEnds = MaxPolls /\ Len(prOut) = 1
    /\ NodeIdx(Get(node)) = 1
    /\ gen.recs = <<BeginRec(<<>>), NopRec, PropRec(2, <<7>>), BeginRec(<<97>>),
                    EndRec, PropRec(2, <<7>>)>>

-----------------------------------------------------------------------------
(* C11..C20 *)

\* the least multiple of 4 that is at least n
RoundUp4(n) == CHOOSE m \in n..(n + 3) : m % 4 = 0

\* the bytes the record of an emitted token takes, by the format
RecordBytes(item) ==
    CASE item.kind = "BeginNode" -> 4 + RoundUp4(Len(item.name) + 1)
      [] item.kind = "EndNode" -> 4
      [] item.kind = "Prop" -> 12 + RoundUp4(Len(item.value))

\* the token a generated record stands for
GenItem(r) ==
    CASE r.k = "B" -> Item("BeginNode", r.name, <<>>)
      [] r.k = "E" -> Item("EndNode", <<>>, <<>>)
      [] r.k = "P" -> Item("Prop", r.name, r.val)

\* the tokens of the generated records, tags that stand for no token left out
GenTokens ==
    LET idx == Ascending({i \in 1..Len(gen.recs) : gen.recs[i].k \in {"B", "E", "P"}})
    IN  [x \in 1..Len(idx) |-> GenItem(gen.recs[idx[x]])]

(* C11: a call of next() that returns moves the struct cursor by 4 for each *)
(* NOP it passes plus, for the token it emits, 4 + align_up(name_len + 1,   *)
(* 4) (BeginNode), 4 (EndNode) or 12 + align_up(value_len, 4) (Property);   *)
(* the strings view never changes; over a block of whole records the        *)
(* tokens emitted are the records without the NOPs, in order.               *)
C11_StepAdvancesByRecord ==
    [][(tok # None /\ tok' # tok) =>
          /\ Get(tok').dt_strings = Get(tok).dt_strings
          /\ Get(tok').dt_struct.off + Get(tok').dt_struct.len
                = Get(tok).dt_struct.off + Get(tok).dt_struct.len
          /\ Get(tok).dt_struct.len - Get(tok').dt_struct.len
                = 4 * (tokSkip' - tokSkip)
                  + (IF tokOut' # tokOut THEN RecordBytes(tokOut'[Len(tokOut')]) ELSE 0)
          /\ GenClean => /\ IsPrefix(tokOut', GenTokens)
                         /\ tokEnds' > 0 => tokOut' = GenTokens]_vars

\* two NOPs were passed in the call that emitted the padded property
C11_Witness ==
    /\ gen.recs = <<NopRec, NopRec, PropRec(2, <<1, 2, 3, 4, 5, 6>>)>> /\ gen.cut = 0
    /\ tok # None /\ tokSkip = 2 /\ Len(tokOut) = 1
    /\ Get(tok).dt_struct.len = 0

\* the big-endian number in the four bytes of mem after offset p
BeNat(p) == ((mem[p + 1] * 256 + mem[p + 2]) * 256 + mem[p + 3]) * 256 + mem[p + 4]

(* C12: the value of an emitted Property token is the value_len bytes that  *)
(* follow the 12-byte prefix of its record, without the padding; its name   *)
(* is the bytes from name-offset in the strings block up to the first NUL;  *)
(* a value_len of 0 gives an empty value and an advance of 12 bytes.        *)
C12_PropertyValueAndName ==
    [][(tok # None /\ tokOut' # tokOut /\ tokOut'[Len(tokOut')].kind = "Prop") =>
          LET item == tokOut'[Len(tokOut')]
              p == Get(tok).dt_struct.off + 4 * (tokSkip' - tokSkip)
              q == Get(tok).dt_strings.off + BeNat(p + 8)
          IN  /\ BeNat(p) = 3
              /\ Len(item.value) = BeNat(p + 4)
              /\ item.value = [i \in 1..BeNat(p + 4) |-> mem[p + 12 + i]]
              /\ \A i \in 1..Len(item.name) : item.name[i] = mem[q + i] /\ mem[q + i] # 0
              /\ mem[q + Len(item.name) + 1] = 0
              /\ q + Len(item.name) + 1
                    <= Get(tok).dt_strings.off + Get(tok).dt_strings.len
              /\ BeNat(p + 4) = 0 =>
                    /\ item.value = <<>>
                    /\ Get(tok').dt_struct.off = p + 12]_vars

\* an empty value, then a six-byte value whose two padding bytes are left out
C12_Witness ==
    /\ gen.recs = <<PropRec(0, <<>>), PropRec(2, <<1, 2, 3, 4, 5, 6>>)>> /\ gen.cut = 0
    /\ tokOut = <<Item("Prop", NameAt0, <<>>), Item("Prop", NameAt2, <<1, 2, 3, 4, 5, 6>>)>>
    /\ Get(tok).dt_struct.len = 0

\* the first record with a tag the reader does not know, or 0
FirstUnknown ==
    LET us == {i \in 1..Len(gen.recs) : gen.recs[i].k = "U"}
    IN  IF us = {} THEN 0 ELSE CHOOSE i \in us : \A x \in us : i <= x

\* the tokens of the records before record u
GenTokensBefore(u) ==
    SubSeq(GenTokens, 1, Cardinality({i \in 1..(u - 1) : gen.recs[i].k \in {"B", "E", "P"}}))

\* the cursor `it` has not gone past the start of record u
NotPast(it, u) == it.dt_struct.off <= GenIter(u - 1).dt_struct.off

\* the first BeginNode or EndNode record after record i, or 0
PropStop(i) ==
    LET stops == {m \in (i + 1)..Len(gen.recs) : gen.recs[m].k \in {"B", "E"}}
    IN  IF stops = {} THEN 0 ELSE CHOOSE m \in stops : \A x \in stops : m <= x

(* C13: a tag that is none of 1, 2, 3, 4, 9 aborts the program when a       *)
(* cursor reaches it: the cursor never gets past the tag, emits no token    *)
(* for it or after it and never reports the end; the same holds for a       *)
(* properties() or children() scan whose range holds the tag.               *)
C13_UnknownTagAborts ==
    /\ panic = "unrecognized FDT node" => FirstUnknown # 0
    /\ (tok # None /\ FirstUnknown # 0) =>
          /\ NotPast(Get(tok), FirstUnknown)
          /\ tokEnds = 0
          /\ IsPrefix(tokOut, GenTokensBefore(FirstUnknown))
    /\ (ch # None /\ FirstUnknown > NodeIdx(Get(node))
          /\ (CloseIdx(NodeIdx(Get(node))) = 0
                \/ FirstUnknown < CloseIdx(NodeIdx(Get(node))))) =>
          /\ NotPast(Get(ch).iter, FirstUnknown)
          /\ chEnds = 0
          /\ \A i \in 1..Len(chOut) : NodeIdx(chOut[i]) < FirstUnknown
    /\ (pr # None /\ FirstUnknown > NodeIdx(Get(node))
          /\ (PropStop(NodeIdx(Get(node))) = 0
                \/ FirstUnknown < PropStop(NodeIdx(Get(node))))) =>
          /\ NotPast(Get(pr).iter, FirstUnknown)
          /\ prEnds = 0
          /\ IsPrefix(prOut, GenProperties(NodeIdx(Get(node))))
          /\ Len(prOut) <= CountKind("P", 1, FirstUnknown)

\* a children() scan that had yielded one child died on the unknown tag
\* behind it
C13_Witness ==
    /\ panic = "unrecognized FDT node"
    /\ gen.recs = <<BeginRec(<<>>), BeginRec(<<97>>), EndRec, UnknownRec, EndRec>>
    /\ ch # None /\ Len(chOut) = 1 /\ chEnds = 0

\* the generated block is whole known records of which the last is cut short:
\* its declared size ends inside the record, or its name has no NUL
GenLastTruncated ==
    /\ gen.recs # <<>>
    /\ \A i \in 1..Len(gen.recs) : gen.recs[i].k # "U"
    /\ \A i \in 1..(Len(gen.recs) - 1) : gen.recs[i].k # "T"
    /\ gen.cut > 0 \/ gen.recs[Len(gen.recs)].k = "T"

(* C14: a record that runs over the end of the struct block - a Property    *)
(* whose value or padding does not fit, a BeginNode whose name has no NUL   *)
(* or whose padded name does not fit, 1 to 3 bytes where a tag is due - is  *)
(* never emitted as a token: the cursor stays before it and never reports   *)
(* the end, the program panics; no cursor ever leaves the struct block.     *)
C14_TruncatedRecordAborts ==
    /\ tok # None =>
          /\ Get(tok).dt_struct.len >= 0
          /\ Get(tok).dt_struct.off + Get(tok).dt_struct.len
                = NatOf(gen.hdr.off_dt_struct) + NatOf(gen.hdr.size_dt_struct)
    /\ (tok # None /\ GenLastTruncated) =>
          /\ NotPast(Get(tok), Len(gen.recs))
          /\ tokEnds = 0
          /\ IsPrefix(tokOut, GenTokensBefore(Len(gen.recs)))
    /\ (rootCalled /\ GenLastTruncated /\ Len(gen.recs) = 1) =>
          node = None /\ panic # NoPanic

\* the value of the property fits, its padding does not: the node before it
\* was emitted, then the program panicked
C14_Witness ==
    /\ gen.recs = <<BeginRec(<<97, 98, 99>>), PropRec(2, <<1, 2, 3, 4, 5, 6>>)>>
    /\ gen.cut = 2
    /\ tok # None /\ Len(tokOut) = 1 /\ panic = "slice index"

\* the BeginNode records of the root's subtree, in file order
GenSubtree == Ascending({i \in 1..CloseIdx(1) : gen.recs[i].k = "B"})

\* the generated block is one balanced tree: an EndNode closes the root, no
\* node, property or EndNode follows it, and a build with debug assertions
\* meets no END tag inside it
GenBalanced ==
    /\ CloseIdx(1) # 0
    /\ \A i \in (CloseIdx(1) + 1)..Len(gen.recs) : gen.recs[i].k \in {"N", "X"}
    /\ debug => \A i \in 1..CloseIdx(1) : gen.recs[i].k # "X"

(* C15: show_node from root_node() visits every BeginNode of a balanced     *)
(* struct block exactly once, in file order, and the properties it gets     *)
(* from a visited node are that node's own: the Property records between    *)
(* the node's BeginNode and the next BeginNode or EndNode.                  *)
C15_ShowNodeVisitsPreOrder ==
    GenBalanced =>
        /\ panic = NoPanic
        /\ Len(shown) <= Len(GenSubtree)
        /\ \A k \in 1..Len(shown) :
              /\ shown[k].node = GenNode(GenSubtree[k])
              /\ IsPrefix(shown[k].props, GenProperties(GenSubtree[k]))
              /\ k < Len(shown) => shown[k].props = GenProperties(GenSubtree[k])
        /\ (stack # <<>> /\ Top.phase = "children") =>
              shown[Len(shown)].props = GenProperties(GenSubtree[Len(shown)])
        /\ (stack = <<>> /\ shown # <<>>) =>
              /\ Len(shown) = Len(GenSubtree)
              /\ shown[Len(shown)].props = GenProperties(GenSubtree[Len(shown)])

\* a child with a property and a second child without: three nodes shown,
\* the property under the first child only, show_node has returned
C15_Witness ==
    /\ gen.recs = <<BeginRec(<<>>), BeginRec(<<97>>), PropRec(2, <<7>>), EndRec,
                    BeginRec(<<97>>), EndRec, EndRec>>
    /\ stack = <<>> /\ Len(shown) = 3
    /\ shown[1].props = <<>>
    /\ shown[2].props = <<Property(NameAt2, <<7>>)>>
    /\ shown[3].props = <<>>

\* the nodes children() of the node of record i yields: its direct children,
\* up to its EndNode or, where none closes it, to the end of the block
GenChildrenOpen(i) ==
    IF CloseIdx(i) # 0 THEN GenChildren(i)
    ELSE LET idx == Ascending({j \in (i + 1)..Len(gen.recs) :
                                  gen.recs[j].k = "B" /\ DepthAt(i, j) = 1})
         IN  [x \in 1..Len(idx) |-> GenNode(idx[x])]

(* C16: a child yielded by a Children iterator has a cursor of its own, just *)
(* after its BeginNode.  However far the child's properties() and            *)
(* children() scans have run, the iterator that yielded it goes on to yield  *)
(* the remaining children of its node; however far that iterator has run,    *)
(* the child's scans yield the child's own properties and children.          *)
C16_ChildCursorIndependent ==
    parent # None =>
        /\ IsPrefix(Get(parent).out, GenChildrenOpen(NodeIdx(Get(parent).node)))
        /\ Get(parent).ends > 0 =>
              Get(parent).out = GenChildrenOpen(NodeIdx(Get(parent).node))
        /\ \E k \in 1..Len(Get(parent).out) : Get(node) = Get(parent).out[k]
        /\ NodeIdx(Get(node)) # 0 /\ Get(node) = GenNode(NodeIdx(Get(node)))
        /\ ch # None =>
              /\ IsPrefix(chOut, GenChildrenOpen(NodeIdx(Get(node))))
              /\ chEnds > 0 => chOut = GenChildrenOpen(NodeIdx(Get(node)))
        /\ pr # None =>
              /\ IsPrefix(prOut, GenProperties(NodeIdx(Get(node))))
              /\ prEnds > 0 => prOut = GenProperties(NodeIdx(Get(node)))

\* the first child was kept when it was yielded; its properties() scan has
\* ended, and the iterator that yielded it has yielded the second child and
\* ended
C16_Witness ==
    /\ gen.recs = <<BeginRec(<<>>), BeginRec(<<97>>), PropRec(2, <<7>>), EndRec,
                    BeginRec(<<97>>), EndRec>>
    /\ parent # None /\ NodeIdx(Get(node)) = 2
    /\ Len(Get(parent).out) = 2 /\ Get(parent).ends > 0
    /\ prEnds > 0 /\ Len(prOut) = 1

(* C17: once memory_reservations() has returned None at the first all-zero  *)
(* record, every later poll of the same iterator returns None as well: no   *)
(* record from behind that record is ever yielded.                          *)
C17_ReservationEndStaysEnd ==
    (resvFirst # None /\ FirstSentinel(gen.resv) # 0) =>
        /\ resvOut = Get(resvFirst)
        /\ Len(resvOut) < FirstSentinel(gen.resv)

\* the struct bytes a cursor has left
Left(it) == it.dt_struct.len

(* C18: every call of next() that moves the cursor leaves at least 4 bytes  *)
(* fewer, so a cursor over n bytes yields at most n / 4 tokens; after it    *)
(* has returned None it is empty and yields nothing more.  A children() or  *)
(* properties() scan likewise uses up at least 4 bytes for whatever it      *)
(* yields, and after its first None it yields nothing more.                 *)
C18_TokenizationTerminates ==
    [][/\ (tok # None /\ tok' # tok) => Left(Get(tok')) <= Left(Get(tok)) - 4
       /\ (tok # None /\ tokOut' # tokOut) => Get(tok') # Get(tok)
       /\ tok' # None =>
             /\ 4 * Len(tokOut') <= NatOf(gen.hdr.size_dt_struct) - Left(Get(tok'))
             /\ tokEnds' > 0 => Left(Get(tok')) = 0
       /\ (tok # None /\ tokEnds > 0) => (tokOut' = tokOut /\ tok' = tok)
       /\ (ch # None /\ scans' = scans /\ node' = node /\ Get(ch').iter # Get(ch).iter) =>
             Left(Get(ch').iter) <= Left(Get(ch).iter) - 4
       /\ (ch # None /\ chOut' # chOut /\ scans' = scans /\ node' = node) =>
             Get(ch').iter # Get(ch).iter
       /\ (ch' # None /\ node' # None) =>
             4 * Len(chOut') <= Left(Get(node').iter) - Left(Get(ch').iter)
       /\ (ch # None /\ chEnds > 0 /\ scans' = scans /\ node' = node) =>
             (chOut' = chOut /\ ch' = ch)
       /\ (pr # None /\ scans' = scans /\ node' = node /\ Get(pr').iter # Get(pr).iter) =>
             Left(Get(pr').iter) <= Left(Get(pr).iter) - 4
       /\ (pr # None /\ prOut' # prOut /\ scans' = scans /\ node' = node) =>
             Get(pr').iter # Get(pr).iter
       /\ (pr' # None /\ node' # None) =>
             12 * Len(prOut') <= Left(Get(node').iter) - Left(Get(pr').iter)
       /\ (pr # None /\ prEnds > 0 /\ scans' = scans /\ node' = node) =>
             (prOut' = prOut /\ pr' = pr)]_vars

\* a block of 24 bytes read to its end: four tokens and the END tag, and the
\* cursor polled again after it had returned None
C18_Witness ==
    /\ gen.recs = <<BeginRec(<<>>), EndRec, EndRec, EndRec, EndTagRec>>
    /\ tok # None /\ Len(tokOut) = 4 /\ tokEnds = MaxPolls
    /\ Left(Get(tok)) = 0

(* C19: the depth of a Children iterator is always 1 + the BeginNode tokens *)
(* it has consumed - the EndNode tokens it has consumed, and never below 0; *)
(* it returns None only at depth 0 or with the tokens used up, and every    *)
(* later call returns None again and consumes nothing.                      *)
C19_DepthCountsOpenNodes ==
    [][/\ ch' # None =>
             /\ Get(ch').depth = 1 + chBegins' - chEndNodes'
             /\ Get(ch').depth >= 0
             /\ chEnds' > 0 => (Get(ch').depth = 0 \/ Left(Get(ch').iter) = 0)
             /\ (chEnds' > 0 /\ CloseIdx(NodeIdx(Get(node'))) = 0) => Get(ch').depth > 0
       /\ (ch # None /\ chEnds > 0 /\ scans' = scans /\ node' = node) =>
             /\ ch' = ch /\ chOut' = chOut
             /\ chBegins' = chBegins /\ chEndNodes' = chEndNodes]_vars

\* both nodes under the root lack their EndNode: the scan ended at depth 2
\* with the tokens used up, and was polled again
C19_Witness ==
    /\ gen.recs = <<BeginRec(<<>>), BeginRec(<<97>>), BeginRec(<<97>>), EndRec>>
    /\ ch # None /\ chEnds = MaxPolls /\ Get(ch).depth = 2
    /\ NodeIdx(Get(node)) = 1
    /\ chBegins = 2 /\ chEndNodes = 1 /\ Len(chOut) = 1

\* the 16-byte chunks between off_mem_rsvmap and the end of the blob, and
\* the bytes of chunk k (from 0), read off the memory itself
ChunkCount == (NatOf(gen.hdr.totalsize) - NatOf(gen.hdr.off_mem_rsvmap)) \div 16
ChunkBytes(k) == [i \in 1..16 |-> mem[NatOf(gen.hdr.off_mem_rsvmap) + 16 * k + i]]
NoZeroChunk == \A k \in 0..(ChunkCount - 1) : \E i \in 1..16 : ChunkBytes(k)[i] # 0

(* C20: where no whole 16-byte chunk between off_mem_rsvmap and the end of  *)
(* the blob is all zero, memory_reservations() yields one reservation for   *)
(* each whole chunk, those over the struct and strings blocks included,     *)
(* then None; it leaves a shorter last chunk alone and never reads behind   *)
(* totalsize.  With off_mem_rsvmap > totalsize the call panics.             *)
C20_NoSentinelReservations ==
    /\ NatOf(gen.hdr.off_mem_rsvmap) > NatOf(gen.hdr.totalsize) =>
          /\ resv = None
          /\ panic \in {NoPanic, "slice index"}
    /\ resv # None =>
          /\ Get(resv).len >= 0
          /\ Get(resv).off + Get(resv).len <= NatOf(gen.hdr.totalsize)
    /\ (resv # None /\ NoZeroChunk) =>
          /\ Len(resvOut) <= ChunkCount
          /\ \A k \in 1..Len(resvOut) :
                ToBeBytes(resvOut[k].address) \o ToBeBytes(resvOut[k].size)
                   = ChunkBytes(k - 1)
          /\ resvEnds > 0 => Len(resvOut) = ChunkCount

\* one reservation and no sentinel: the 41 bytes of the struct and strings
\* blocks gave two more, the last 9 bytes none
C20_Witness ==
    /\ gen.resv = <<MemoryReservation(U64(4096), U64(0))>>
    /\ gen.hdr.off_mem_rsvmap = U32(HeaderLen)
    /\ resv # None /\ resvEnds = MaxPolls /\ Len(resvOut) = 3
    /\ Get(resv).len = 0
    /\ NatOf(gen.hdr.totalsize) - Get(resv).off = 9

=============================================================================
